---- MODULE Spec2Model ----
(***************************************************************************)
(* State-machine model of the library data-access layer of UVBeatShelf:    *)
(* the SQLite store behind DatabaseManager, the Track repository with its  *)
(* managed media files, the Playlist ordering engine and the migration     *)
(* sequence of DatabaseManager.migrate_database.                           *)
(*                                                                         *)
(* A table is the set of its rows, a row is a record of its columns.  One  *)
(* action is one public method, run to completion (the program is single-  *)
(* threaded and every DatabaseManager.execute call is its own committed    *)
(* transaction).                                                           *)
(***************************************************************************)
EXTENDS Integers, Sequences, FiniteSets, TLC

\* ------------------------------------------------------------- bounds
\* Library specification: playlist ids 1..MaxPlaylists, track ids
\* 1..MaxTracks, positions 0..MaxPosition.
MaxPlaylists == 2
MaxTracks == 2
MaxPosition == 2
\* Files and migration specifications: at most MaxFiles uuid names are
\* generated and at most MaxBackups backup files are left behind.
MaxFiles == 3
MaxBackups == 1
\* Ordering specification: track ids 1..OrderingTracks in one playlist,
\* positions 0..OrderingTracks.
OrderingTracks == 3
\* Catalog specification: artist ids 1..MaxArtists, album ids 1..MaxAlbums.
MaxArtists == 2
MaxAlbums == 2
\* Formatting specification: durations 0..MaxDuration seconds.
MaxDuration == 6005

\* ------------------------------------------------------------- values
\* Python None / SQL NULL in an INTEGER column or a path column.
NULL == -1
\* Python None / SQL NULL in a TEXT column.
NoText == "<NULL>"

PlaylistIds == 1..MaxPlaylists
TrackIds == 1..MaxTracks
Positions == 0..MaxPosition
OrderingTrackIds == 1..OrderingTracks
OrderingPositions == 0..OrderingTracks
ArtistIds == 1..MaxArtists
AlbumIds == 1..MaxAlbums
Durations == 0..MaxDuration
ArtistNames == {"a", "b"}
AlbumTitles == {"x"}

VARIABLES
    foreign_keys,      \* whether the SQLite build enforces FOREIGN KEY clauses
    artists,           \* table artists
    albums,            \* table albums
    tracks,            \* table tracks
    playlists,         \* table playlists
    playlist_tracks,   \* table playlist_tracks
    sqlite_sequence,   \* AUTOINCREMENT counters, one per table
    audio_folder,      \* uuid names of the files present in media_root/audio
    covers_folder,     \* uuid names of the files present in media_root/covers
    uuids,             \* number of uuid4 names generated so far
    backups,           \* backup files present beside the store
    call,              \* the last public call: its name and arguments, and
                       \* for a playlist call what it found before acting
    result,            \* what the last public call returned
    table_columns,     \* per table: the names of its columns
    add_log            \* per playlist: the add_track calls since it was empty

vars == <<table_columns, foreign_keys, artists, albums, tracks, playlists, playlist_tracks,
          sqlite_sequence, audio_folder, covers_folder, uuids, backups, call, result, add_log>>

\* ------------------------------------------------------------- return values
\* DatabaseManager.execute returns a list of rows, an integer, or [] on error.
IntResult(n) == [kind |-> "int", val |-> n]
\* The empty list: a SELECT without rows, or a failed statement.
EmptyList == [kind |-> "list", val |-> 0]
\* lastrowid of an INSERT into playlist_tracks (a positive rowid; the rowids
\* of that table are not columns of the schema and are not tracked).
NewRowId == [kind |-> "rowid", val |-> 0]
\* Python None.
None == [kind |-> "none", val |-> 0]
\* The call ended by raising an exception.
Raised == [kind |-> "raised", val |-> 0]

\* ------------------------------------------------------------- SQL helpers
\* DatabaseManager.create_tables: the five tables and their columns.
create_tables ==
    [artists |-> {"id", "name"},
     albums |-> {"id", "title", "artist_id", "year"},
     tracks |-> {"id", "title", "artist_id", "album_id", "duration",
                 "file_path", "cover_path", "lyrics"},
     playlists |-> {"id", "name"},
     playlist_tracks |-> {"playlist_id", "track_id", "position"}]

Ids(table) == {r.id : r \in table}

Max(S) == CHOOSE x \in S : \A y \in S : y <= x

\* The rows of one playlist.
RowsOf(pt, p) == {r \in pt : r.playlist_id = p}

\* Density: the positions of the rows of playlist p are exactly 1..N, N the
\* number of rows (so no position is used twice).
Dense(pt, p) ==
    {r.position : r \in RowsOf(pt, p)} = 1..Cardinality(RowsOf(pt, p))

\* The record of a playlist call: its arguments (new_position is NULL but for
\* change_track_position), the position the track had before the call (NULL
\* for a track that was not a member) and whether the playlist was dense.
PlaylistCall(op, p, t, new_position) ==
    [op |-> op, playlist_id |-> p, track_id |-> t,
     new_position |-> new_position,
     position |-> IF \E r \in RowsOf(playlist_tracks, p) : r.track_id = t
                  THEN (CHOOSE r \in RowsOf(playlist_tracks, p) :
                            r.track_id = t).position
                  ELSE NULL,
     dense |-> Dense(playlist_tracks, p)]

\* lastrowid of an INSERT into an AUTOINCREMENT table: one more than the
\* largest id ever used in it.
NextId(table, name) == sqlite_sequence[name] + 1

\* ------------------------------------------------------------- add_track log
\* History of a playlist for the insertion-order property: the tracks put
\* into it by successful add_track calls since it last had no row, as long as
\* nothing else touched its rows or the tracks they name.
EmptyLog == [clean |-> TRUE, seq |-> <<>>]
DirtyLog == [clean |-> FALSE, seq |-> <<>>]

LogNext(q, pt2, tracks2, appended) ==
    IF RowsOf(pt2, q) = {} THEN EmptyLog
    ELSE IF appended # NULL
         THEN IF add_log[q].clean /\ appended \in Ids(tracks2)
              THEN [clean |-> TRUE, seq |-> Append(add_log[q].seq, appended)]
              ELSE DirtyLog
    ELSE IF /\ RowsOf(pt2, q) = RowsOf(playlist_tracks, q)
            /\ \A r \in RowsOf(pt2, q) :
                  (r.track_id \in Ids(tracks2)) <=> (r.track_id \in Ids(tracks))
         THEN add_log[q]
         ELSE DirtyLog

\* The log after a call that leaves the rows pt2 and the tracks tracks2;
\* p is the playlist a successful add_track appended track t to (else NULL).
Logged(pt2, tracks2, p, t) ==
    [q \in PlaylistIds |-> LogNext(q, pt2, tracks2, IF q = p THEN t ELSE NULL)]

\* ------------------------------------------------------------- Playlist
\* Playlist.create: INSERT INTO playlists (name); name is UNIQUE NOT NULL.
Playlist_create(name) ==
    /\ call' = [op |-> "Playlist.create", name |-> name]
    /\ IF name = NoText \/ \E r \in playlists : r.name = name
       THEN /\ result' = EmptyList
            /\ UNCHANGED <<playlists, sqlite_sequence>>
       ELSE /\ playlists' = playlists \cup
                   {[id |-> NextId(playlists, "playlists"), name |-> name]}
            /\ sqlite_sequence' = [sqlite_sequence EXCEPT !["playlists"] = @ + 1]
            /\ result' = IntResult(NextId(playlists, "playlists"))
    /\ UNCHANGED <<table_columns, foreign_keys, artists, albums, tracks, playlist_tracks,
                   audio_folder, covers_folder, uuids, backups, add_log>>

\* ON DELETE CASCADE of playlist_tracks.playlist_id, applied only when the
\* connection enforces foreign keys.
CascadePlaylist(pt, p) ==
    IF foreign_keys THEN {r \in pt : r.playlist_id # p} ELSE pt

\* Playlist.delete: DELETE FROM playlists WHERE id = ?; returns the rowcount.
Playlist_delete(p) ==
    /\ call' = [op |-> "Playlist.delete", playlist_id |-> p]
    /\ playlists' = {r \in playlists : r.id # p}
    /\ playlist_tracks' = IF p \in Ids(playlists)
                          THEN CascadePlaylist(playlist_tracks, p)
                          ELSE playlist_tracks
    /\ result' = IntResult(Cardinality({r \in playlists : r.id = p}))
    /\ add_log' = Logged(playlist_tracks', tracks, NULL, NULL)
    /\ UNCHANGED <<table_columns, foreign_keys, artists, albums, tracks, sqlite_sequence,
                   audio_folder, covers_folder, uuids, backups>>

\* The shift of add_track without its WHERE clause: every row of the table
\* moves.
add_track_shift_all(pt, p) == {[r EXCEPT !.position = @ + 1] : r \in pt}

\* add_track, first statement: UPDATE ... SET position = position + 1
\* WHERE playlist_id = ?.
add_track_shift(pt, p) ==
    {IF r.playlist_id = p THEN [r EXCEPT !.position = @ + 1] ELSE r : r \in pt}

\* Whether INSERT INTO playlist_tracks (playlist_id, track_id, position) is
\* rejected: the composite primary key, and the two foreign keys when the
\* connection enforces them.
InsertRejected(pt, p, t) ==
    \/ \E r \in pt : r.playlist_id = p /\ r.track_id = t
    \/ foreign_keys /\ (p \notin Ids(playlists) \/ t \notin Ids(tracks))

\* add_track as an append: no shift, the new pair goes after the last one.
add_track_rows_append(pt, p, t) ==
    IF InsertRejected(pt, p, t)
    THEN pt
    ELSE pt \cup {[playlist_id |-> p, track_id |-> t,
                   position |-> Cardinality(RowsOf(pt, p)) + 1]}

\* add_track, both statements, each committed by its own execute call.
add_track_rows(pt, p, t) ==
    IF InsertRejected(add_track_shift(pt, p), p, t)
    THEN add_track_shift(pt, p)
    ELSE add_track_shift(pt, p) \cup
             {[playlist_id |-> p, track_id |-> t, position |-> 1]}

\* Playlist.add_track(playlist_id, track_id).
Playlist_add_track(p, t) ==
    /\ call' = PlaylistCall("Playlist.add_track", p, t, NULL)
    /\ playlist_tracks' = add_track_rows(playlist_tracks, p, t)
    /\ result' = IF InsertRejected(playlist_tracks, p, t)
                 THEN EmptyList ELSE NewRowId
    /\ add_log' = IF InsertRejected(playlist_tracks, p, t)
                  THEN Logged(playlist_tracks', tracks, NULL, NULL)
                  ELSE Logged(playlist_tracks', tracks, p, t)
    /\ UNCHANGED <<table_columns, foreign_keys, artists, albums, tracks, playlists,
                   sqlite_sequence, audio_folder, covers_folder, uuids, backups>>

\* The position lookup by track_id alone: the rows of the track in any
\* playlist.
PositionRows_any_playlist(pt, p, t) == {r \in pt : r.track_id = t}

\* SELECT position FROM playlist_tracks WHERE playlist_id = ? AND track_id = ?
PositionRows(pt, p, t) == {r \in pt : r.playlist_id = p /\ r.track_id = t}

PositionOf(pt, p, t) == (CHOOSE r \in PositionRows(pt, p, t) : TRUE).position

\* remove_track, the DELETE and the closing UPDATE ... SET position =
\* position - 1 WHERE playlist_id = ? AND position > ?.
remove_track_rows(pt, p, t) ==
    LET position == PositionOf(pt, p, t)
        kept == pt \ PositionRows(pt, p, t)
    IN {IF r.playlist_id = p /\ r.position > position
        THEN [r EXCEPT !.position = @ - 1] ELSE r : r \in kept}

\* The rowcount of remove_track's closing UPDATE, which is what it returns.
remove_track_count(pt, p, t) ==
    Cardinality({r \in RowsOf(pt, p) : r.position > PositionOf(pt, p, t)})

\* Playlist.remove_track(playlist_id, track_id).
Playlist_remove_track(p, t) ==
    /\ call' = PlaylistCall("Playlist.remove_track", p, t, NULL)
    /\ IF PositionRows(playlist_tracks, p, t) = {}
       THEN /\ result' = IntResult(0)
            /\ UNCHANGED playlist_tracks
       ELSE /\ playlist_tracks' = remove_track_rows(playlist_tracks, p, t)
            /\ result' = IntResult(remove_track_count(playlist_tracks, p, t))
    /\ add_log' = Logged(playlist_tracks', tracks, NULL, NULL)
    /\ UNCHANGED <<table_columns, foreign_keys, artists, albums, tracks, playlists,
                   sqlite_sequence, audio_folder, covers_folder, uuids, backups>>

\* shift_back with the upper boundary excluded (position < new_position).
shift_back_open(pt, p, current_position, new_position) ==
    {IF /\ r.playlist_id = p
        /\ r.position > current_position
        /\ r.position < new_position
     THEN [r EXCEPT !.position = @ - 1] ELSE r : r \in pt}

\* change_track_position, current_position < new_position: UPDATE ... SET
\* position = position - 1 WHERE playlist_id = ? AND position > ? AND
\* position <= ?.
shift_back(pt, p, current_position, new_position) ==
    {IF /\ r.playlist_id = p
        /\ r.position > current_position
        /\ r.position <= new_position
     THEN [r EXCEPT !.position = @ - 1] ELSE r : r \in pt}

\* change_track_position, current_position > new_position: UPDATE ... SET
\* position = position + 1 WHERE playlist_id = ? AND position >= ? AND
\* position < ?.
shift_forward(pt, p, new_position, current_position) ==
    {IF /\ r.playlist_id = p
        /\ r.position >= new_position
        /\ r.position < current_position
     THEN [r EXCEPT !.position = @ + 1] ELSE r : r \in pt}

\* change_track_position, last statement: UPDATE ... SET position = ?
\* WHERE playlist_id = ? AND track_id = ?.
set_position(pt, p, t, new_position) ==
    {IF r.playlist_id = p /\ r.track_id = t
     THEN [r EXCEPT !.position = new_position] ELSE r : r \in pt}

\* The three statements of change_track_position for a member whose current
\* position differs from new_position.
change_track_position_rows(pt, p, t, new_position) ==
    LET current_position == PositionOf(pt, p, t)
    IN IF current_position < new_position
       THEN set_position(shift_back(pt, p, current_position, new_position),
                         p, t, new_position)
       ELSE set_position(shift_forward(pt, p, new_position, current_position),
                         p, t, new_position)

\* change_track_position without the current_position == new_position test:
\* the statements run for every member.
Playlist_change_track_position_unguarded(p, t, new_position) ==
    /\ call' = PlaylistCall("Playlist.change_track_position", p, t, new_position)
    /\ IF PositionRows(playlist_tracks, p, t) = {}
       THEN /\ result' = IntResult(0)
            /\ UNCHANGED playlist_tracks
       ELSE /\ playlist_tracks' =
                   change_track_position_rows(playlist_tracks, p, t, new_position)
            /\ result' = IntResult(1)
    /\ add_log' = Logged(playlist_tracks', tracks, NULL, NULL)
    /\ UNCHANGED <<table_columns, foreign_keys, artists, albums, tracks, playlists,
                   sqlite_sequence, audio_folder, covers_folder, uuids, backups>>

\* Playlist.change_track_position(playlist_id, track_id, new_position).
Playlist_change_track_position(p, t, new_position) ==
    /\ call' = PlaylistCall("Playlist.change_track_position", p, t, new_position)
    /\ IF PositionRows(playlist_tracks, p, t) = {}
       THEN /\ result' = IntResult(0)
            /\ UNCHANGED playlist_tracks
       ELSE IF PositionOf(playlist_tracks, p, t) = new_position
       THEN /\ result' = IntResult(0)
            /\ UNCHANGED playlist_tracks
       ELSE /\ playlist_tracks' =
                   change_track_position_rows(playlist_tracks, p, t, new_position)
            /\ result' = IntResult(1)
    /\ add_log' = Logged(playlist_tracks', tracks, NULL, NULL)
    /\ UNCHANGED <<table_columns, foreign_keys, artists, albums, tracks, playlists,
                   sqlite_sequence, audio_folder, covers_folder, uuids, backups>>

\* ------------------------------------------------------------- Track
\* LEFT JOIN artists a ON t.artist_id = a.id, column a.name.
ArtistName(artist_id) ==
    IF artist_id \in Ids(artists)
    THEN (CHOOSE a \in artists : a.id = artist_id).name
    ELSE NoText

\* Whether INSERT INTO tracks is rejected: title and file_path are NOT NULL,
\* file_path is UNIQUE, and the two foreign keys when they are enforced.
TrackRejected(row) ==
    \/ row.title = NoText
    \/ row.file_path = NULL
    \/ \E r \in tracks : r.file_path = row.file_path
    \/ foreign_keys /\ row.artist_id # NULL /\ row.artist_id \notin Ids(artists)
    \/ foreign_keys /\ row.album_id # NULL /\ row.album_id \notin Ids(albums)

\* Track.add.  a holds the arguments: a.file_path and a.cover_path say whether
\* the source file is readable ("ok"), missing ("missing") or, for the cover,
\* not given ("none"); fault says that the INSERT meets a storage error.
\* shutil.copy2 raises on a missing source, and nothing catches it.
Track_add(a, fault) ==
    LET new_file_path == uuids + 1
        new_cover_path == IF a.cover_path = "none" THEN NULL ELSE uuids + 2
        row == [id |-> NextId(tracks, "tracks"), title |-> a.title,
                artist_id |-> a.artist_id, album_id |-> a.album_id,
                duration |-> a.duration, file_path |-> new_file_path,
                cover_path |-> new_cover_path, lyrics |-> a.lyrics]
        copied == a.file_path = "ok" /\ a.cover_path # "missing"
        inserted == copied /\ ~fault /\ ~TrackRejected(row)
    IN /\ call' = [op |-> "Track.add", args |-> a, fault |-> fault]
       /\ uuids' = IF a.file_path = "ok" /\ a.cover_path # "none"
                   THEN uuids + 2 ELSE uuids + 1
       /\ audio_folder' = IF a.file_path = "ok"
                          THEN audio_folder \cup {new_file_path}
                          ELSE audio_folder
       /\ covers_folder' = IF a.file_path = "ok" /\ a.cover_path = "ok"
                           THEN covers_folder \cup {new_cover_path}
                           ELSE covers_folder
       /\ tracks' = IF inserted THEN tracks \cup {row} ELSE tracks
       /\ sqlite_sequence' = IF inserted
                             THEN [sqlite_sequence EXCEPT !["tracks"] = @ + 1]
                             ELSE sqlite_sequence
       /\ result' = IF ~copied THEN Raised
                    ELSE IF inserted THEN IntResult(row.id) ELSE EmptyList
       /\ add_log' = Logged(playlist_tracks, tracks', NULL, NULL)
       /\ UNCHANGED <<table_columns, foreign_keys, artists, albums, playlists,
                      playlist_tracks, backups>>

\* ON DELETE CASCADE of playlist_tracks.track_id, applied only when the
\* connection enforces foreign keys.
CascadeTrack(pt, t) ==
    IF foreign_keys THEN {r \in pt : r.track_id # t} ELSE pt

\* A SELECT of Track.get without its WHERE clause: the first track there is.
Track_get_first(track_id, fault) ==
    IF fault = "select" \/ tracks = {} THEN {}
    ELSE {CHOOSE r \in tracks : \A o \in tracks : r.id <= o.id}

\* Track.get: the row of the track (with the names of its artist and album,
\* which Track.delete does not use); no row when the SELECT fails.
Track_get(track_id, fault) ==
    IF fault = "select" THEN {} ELSE {r \in tracks : r.id = track_id}

\* What Track.delete finds for a path of the row: no path ("none"), a file
\* that os.path.exists sees ("removed") or none ("missing").
OnDisk(folder, path) ==
    IF path = NULL THEN "none"
    ELSE IF path \in folder THEN "removed" ELSE "missing"

\* A file removal that removes nothing.
RemoveFiles_kept(folder, found, path) == folder

\* Track.delete, the file removal: the files named by the row Track.get
\* returned, each removed if os.path.exists says it is there.
RemoveFiles(folder, found, path) ==
    IF found THEN folder \ {path} ELSE folder

\* Track.delete.  fault names the statement that meets a storage error:
\* "select" (inside Track.get), "delete", or "none".
Track_delete(track_id, fault) ==
    LET rows == Track_get(track_id, fault)
        found == rows # {}
        track == CHOOSE r \in rows : TRUE
        deleted == fault # "delete"
    IN /\ call' = [op |-> "Track.delete", track_id |-> track_id, fault |-> fault,
                   audio |-> IF found
                             THEN OnDisk(audio_folder, track.file_path)
                             ELSE "none",
                   cover |-> IF found
                             THEN OnDisk(covers_folder, track.cover_path)
                             ELSE "none"]
       /\ audio_folder' =
              RemoveFiles(audio_folder, found, IF found THEN track.file_path ELSE NULL)
       /\ covers_folder' =
              RemoveFiles(covers_folder, found, IF found THEN track.cover_path ELSE NULL)
       /\ tracks' = IF deleted THEN {r \in tracks : r.id # track_id} ELSE tracks
       /\ playlist_tracks' = IF deleted /\ track_id \in Ids(tracks)
                             THEN CascadeTrack(playlist_tracks, track_id)
                             ELSE playlist_tracks
       /\ result' = IF deleted
                    THEN IntResult(Cardinality({r \in tracks : r.id = track_id}))
                    ELSE EmptyList
       /\ add_log' = Logged(playlist_tracks', tracks', NULL, NULL)
       /\ UNCHANGED <<table_columns, foreign_keys, artists, albums, playlists,
                      sqlite_sequence, uuids, backups>>

\* The test "is not None" on a str argument.
Truthy_not_none(text) == text # NoText

\* Python truth of a str argument: None and the empty string are false.
Truthy(text) == text # NoText /\ text # ""

\* Track.update.  u holds the keyword arguments; a field is written when its
\* argument passes the test of the code (truth for title, "is not None" for
\* the others).  Returns 0 without a statement when no field passes, else the
\* rowcount of the UPDATE, or [] when a foreign key (if enforced) rejects it.
Track_update(track_id, u) ==
    LET fields == {f \in {"artist_id", "album_id", "duration"} : u[f] # NULL}
                  \cup (IF Truthy(u.title) THEN {"title"} ELSE {})
                  \cup (IF u.lyrics # NoText THEN {"lyrics"} ELSE {})
        hit == {r \in tracks : r.id = track_id}
        rejected == /\ hit # {}
                    /\ foreign_keys
                    /\ \/ "artist_id" \in fields /\ u.artist_id \notin Ids(artists)
                       \/ "album_id" \in fields /\ u.album_id \notin Ids(albums)
        written(r) == [f \in DOMAIN r |-> IF f \in fields THEN u[f] ELSE r[f]]
    IN /\ call' = [op |-> "Track.update", id |-> track_id, args |-> u]
       /\ tracks' = IF fields = {} \/ rejected THEN tracks
                    ELSE {IF r \in hit THEN written(r) ELSE r : r \in tracks}
       /\ result' = IF fields = {} THEN IntResult(0)
                    ELSE IF rejected THEN EmptyList
                    ELSE IntResult(Cardinality(hit))
       /\ add_log' = Logged(playlist_tracks, tracks', NULL, NULL)
       /\ UNCHANGED <<table_columns, foreign_keys, artists, albums, playlists, playlist_tracks,
                      sqlite_sequence, audio_folder, covers_folder, uuids, backups>>

\* ------------------------------------------------------------- Artist
\* A lookup that finds no row.
get_by_name_none(name) == {}

\* Artist.get_by_name: SELECT * FROM artists WHERE name = ?; a NULL parameter
\* equals no name.
get_by_name(name) == {r \in artists : name # NoText /\ r.name = name}

\* Whether a statement that gives the name to a row of artists is rejected,
\* rows being the other rows of the table: name is UNIQUE NOT NULL.
ArtistRejected(rows, name) ==
    name = NoText \/ \E r \in rows : r.name = name

\* MusicLibrary.add_artist: the id of the artist of that name, which
\* Artist.add inserts when get_by_name finds none.
MusicLibrary_add_artist(name) ==
    /\ call' = [op |-> "MusicLibrary.add_artist", name |-> name]
    /\ IF get_by_name(name) # {}
       THEN /\ \E existing_artist \in get_by_name(name) :
                   result' = IntResult(existing_artist.id)
            /\ UNCHANGED <<artists, sqlite_sequence>>
       ELSE IF ArtistRejected(artists, name)
       THEN /\ result' = EmptyList
            /\ UNCHANGED <<artists, sqlite_sequence>>
       ELSE /\ artists' = artists \cup
                   {[id |-> NextId(artists, "artists"), name |-> name]}
            /\ sqlite_sequence' = [sqlite_sequence EXCEPT !["artists"] = @ + 1]
            /\ result' = IntResult(NextId(artists, "artists"))
    /\ UNCHANGED <<table_columns, foreign_keys, albums, tracks, playlists, playlist_tracks,
                   audio_folder, covers_folder, uuids, backups, add_log>>

\* Artist.update: UPDATE artists SET name = ? WHERE id = ?; returns the
\* rowcount, or [] when the new name is rejected.
Artist_update(artist_id, name) ==
    LET others == {r \in artists : r.id # artist_id}
        rejected == artist_id \in Ids(artists) /\ ArtistRejected(others, name)
    IN /\ call' = [op |-> "Artist.update", artist_id |-> artist_id, name |-> name]
       /\ artists' = IF rejected THEN artists
                     ELSE {IF r.id = artist_id THEN [r EXCEPT !.name = name]
                           ELSE r : r \in artists}
       /\ result' = IF rejected THEN EmptyList
                    ELSE IntResult(Cardinality({r \in artists : r.id = artist_id}))
       /\ UNCHANGED <<table_columns, foreign_keys, albums, tracks, playlists, playlist_tracks,
                      sqlite_sequence, audio_folder, covers_folder, uuids,
                      backups, add_log>>

\* ON DELETE SET NULL of albums.artist_id and tracks.artist_id, applied only
\* when the connection enforces foreign keys.
SetNullArtist(rows, artist_id) ==
    IF foreign_keys
    THEN {IF r.artist_id = artist_id THEN [r EXCEPT !.artist_id = NULL] ELSE r :
             r \in rows}
    ELSE rows

\* Artist.delete: DELETE FROM artists WHERE id = ?; returns the rowcount.
Artist_delete(artist_id) ==
    /\ call' = [op |-> "Artist.delete", artist_id |-> artist_id]
    /\ artists' = {r \in artists : r.id # artist_id}
    /\ albums' = IF artist_id \in Ids(artists)
                 THEN SetNullArtist(albums, artist_id) ELSE albums
    /\ tracks' = IF artist_id \in Ids(artists)
                 THEN SetNullArtist(tracks, artist_id) ELSE tracks
    /\ result' = IntResult(Cardinality({r \in artists : r.id = artist_id}))
    /\ add_log' = Logged(playlist_tracks, tracks', NULL, NULL)
    /\ UNCHANGED <<table_columns, foreign_keys, playlists, playlist_tracks, sqlite_sequence,
                   audio_folder, covers_folder, uuids, backups>>

\* ------------------------------------------------------------- execute
\* The statements given to DatabaseManager.execute: the four statements of
\* the Artist repository, and a SELECT on a table the schema does not have.
\* An absent parameter is NULL.
Queries ==
    [sql : {"INSERT INTO artists (name) VALUES (?)"},
     name : ArtistNames \cup {NoText}, id : {NULL}]
    \cup [sql : {"UPDATE artists SET name = ? WHERE id = ?"},
          name : ArtistNames \cup {NoText}, id : ArtistIds]
    \cup [sql : {"DELETE FROM artists WHERE id = ?"},
          name : {NoText}, id : ArtistIds]
    \cup [sql : {"SELECT * FROM artists WHERE name = ?",
                 "SELECT * FROM genres WHERE name = ?"},
          name : ArtistNames, id : {NULL}]

\* query.strip().upper().startswith("SELECT")
IsSelect(query) ==
    query.sql \in {"SELECT * FROM artists WHERE name = ?",
                   "SELECT * FROM genres WHERE name = ?"}

\* Whether cursor.execute raises sqlite3.Error: the store is locked by
\* another connection, the table does not exist, or a constraint of artists
\* is violated by the row the statement writes.
StatementError(rows, query, locked) ==
    \/ locked
    \/ query.sql = "SELECT * FROM genres WHERE name = ?"
    \/ /\ query.sql = "INSERT INTO artists (name) VALUES (?)"
       /\ ArtistRejected(rows, query.name)
    \/ /\ query.sql = "UPDATE artists SET name = ? WHERE id = ?"
       /\ query.id \in Ids(rows)
       /\ ArtistRejected({r \in rows : r.id # query.id}, query.name)

\* cursor.execute on a connection shared by the statements: lastrowid keeps
\* the id of the last row the connection inserted.
cursor_execute_shared(rows, query) ==
    LET hit == {r \in rows : r.id = query.id}
    IN CASE query.sql = "INSERT INTO artists (name) VALUES (?)" ->
              [rows |-> rows \cup {[id |-> NextId(rows, "artists"),
                                    name |-> query.name]},
               lastrowid |-> NextId(rows, "artists"), rowcount |-> 1,
               fetchall |-> 0]
         [] query.sql = "UPDATE artists SET name = ? WHERE id = ?" ->
              [rows |-> {IF r.id = query.id THEN [r EXCEPT !.name = query.name]
                         ELSE r : r \in rows},
               lastrowid |-> sqlite_sequence["artists"],
               rowcount |-> Cardinality(hit), fetchall |-> 0]
         [] query.sql = "DELETE FROM artists WHERE id = ?" ->
              [rows |-> rows \ hit,
               lastrowid |-> sqlite_sequence["artists"],
               rowcount |-> Cardinality(hit), fetchall |-> 0]
         [] OTHER ->
              [rows |-> rows, lastrowid |-> 0, rowcount |-> -1,
               fetchall |-> Cardinality({r \in rows : r.name = query.name})]

\* cursor.execute of a statement that raises nothing: the rows of artists
\* after it, its lastrowid (0 on a connection that inserted nothing), its
\* rowcount and the number of rows it selected.
cursor_execute(rows, query) ==
    LET hit == {r \in rows : r.id = query.id}
    IN CASE query.sql = "INSERT INTO artists (name) VALUES (?)" ->
              [rows |-> rows \cup {[id |-> NextId(rows, "artists"),
                                    name |-> query.name]},
               lastrowid |-> NextId(rows, "artists"), rowcount |-> 1,
               fetchall |-> 0]
         [] query.sql = "UPDATE artists SET name = ? WHERE id = ?" ->
              [rows |-> {IF r.id = query.id THEN [r EXCEPT !.name = query.name]
                         ELSE r : r \in rows},
               lastrowid |-> 0, rowcount |-> Cardinality(hit), fetchall |-> 0]
         [] query.sql = "DELETE FROM artists WHERE id = ?" ->
              [rows |-> rows \ hit,
               lastrowid |-> 0, rowcount |-> Cardinality(hit), fetchall |-> 0]
         [] OTHER ->
              [rows |-> rows, lastrowid |-> 0, rowcount |-> -1,
               fetchall |-> Cardinality({r \in rows : r.name = query.name})]

\* A list of n rows, the result of a SELECT.
ListResult(n) == [kind |-> "list", val |-> n]

\* execute without its except clause: the error of the statement leaves it.
DatabaseManager_execute_uncaught(query, locked) ==
    LET done == cursor_execute(artists, query)
        error == StatementError(artists, query, locked)
    IN /\ call' = [op |-> "DatabaseManager.execute", query |-> query,
                   locked |-> locked]
       /\ artists' = IF error \/ IsSelect(query) THEN artists ELSE done.rows
       /\ sqlite_sequence' =
              IF ~error /\ done.lastrowid # 0
              THEN [sqlite_sequence EXCEPT !["artists"] = done.lastrowid]
              ELSE sqlite_sequence
       /\ result' = IF error THEN Raised
                    ELSE IF IsSelect(query) THEN ListResult(done.fetchall)
                    ELSE IF done.lastrowid # 0 THEN IntResult(done.lastrowid)
                    ELSE IntResult(done.rowcount)
       /\ UNCHANGED <<table_columns, foreign_keys, albums, tracks, playlists, playlist_tracks,
                      audio_folder, covers_folder, uuids, backups, add_log>>

\* DatabaseManager.execute(query, parameters) on its own connection: the rows
\* of a SELECT, lastrowid or else rowcount after the commit of another
\* statement, and [] after the rollback when cursor.execute raised
\* sqlite3.Error.
DatabaseManager_execute(query, locked) ==
    LET done == cursor_execute(artists, query)
        error == StatementError(artists, query, locked)
    IN /\ call' = [op |-> "DatabaseManager.execute", query |-> query,
                   locked |-> locked]
       /\ artists' = IF error \/ IsSelect(query) THEN artists ELSE done.rows
       /\ sqlite_sequence' =
              IF ~error /\ done.lastrowid # 0
              THEN [sqlite_sequence EXCEPT !["artists"] = done.lastrowid]
              ELSE sqlite_sequence
       /\ result' = IF error THEN EmptyList
                    ELSE IF IsSelect(query) THEN ListResult(done.fetchall)
                    ELSE IF done.lastrowid # 0 THEN IntResult(done.lastrowid)
                    ELSE IntResult(done.rowcount)
       /\ UNCHANGED <<table_columns, foreign_keys, albums, tracks, playlists, playlist_tracks,
                      audio_folder, covers_folder, uuids, backups, add_log>>

\* ------------------------------------------------------------- Album
\* Album.get_by_title_and_artist: SELECT * FROM albums WHERE title = ? AND
\* artist_id = ?; a NULL parameter equals no value, NULL included.
get_by_title_and_artist(title, artist_id) ==
    {r \in albums : /\ title # NoText /\ r.title = title
                    /\ artist_id # NULL /\ r.artist_id = artist_id}

\* Whether a statement that writes title and artist_id to a row of albums is
\* rejected: title is NOT NULL, and the foreign key when it is enforced.
AlbumRejected(title, artist_id) ==
    \/ title = NoText
    \/ foreign_keys /\ artist_id # NULL /\ artist_id \notin Ids(artists)

\* MusicLibrary.add_album: the id of the first album get_by_title_and_artist
\* finds (SELECT without ORDER BY: any of them), else the id of the row
\* Album.add inserts.
MusicLibrary_add_album(title, artist_id, year) ==
    /\ call' = [op |-> "MusicLibrary.add_album", title |-> title,
                artist_id |-> artist_id, year |-> year]
    /\ IF get_by_title_and_artist(title, artist_id) # {}
       THEN /\ \E existing_album \in get_by_title_and_artist(title, artist_id) :
                   result' = IntResult(existing_album.id)
            /\ UNCHANGED <<albums, sqlite_sequence>>
       ELSE IF AlbumRejected(title, artist_id)
       THEN /\ result' = EmptyList
            /\ UNCHANGED <<albums, sqlite_sequence>>
       ELSE /\ albums' = albums \cup
                   {[id |-> NextId(albums, "albums"), title |-> title,
                     artist_id |-> artist_id, year |-> year]}
            /\ sqlite_sequence' = [sqlite_sequence EXCEPT !["albums"] = @ + 1]
            /\ result' = IntResult(NextId(albums, "albums"))
    /\ UNCHANGED <<table_columns, foreign_keys, artists, tracks, playlists, playlist_tracks,
                   audio_folder, covers_folder, uuids, backups, add_log>>

\* Album.update.  u holds the arguments; a field is written when its
\* argument passes the test of the code (truth for title, "is not None" for
\* artist_id and year).  Returns 0 without a statement when no field passes,
\* else the rowcount of the UPDATE, or [] when the foreign key (if enforced)
\* rejects it.
Album_update(album_id, u) ==
    LET fields == {f \in {"artist_id", "year"} : u[f] # NULL}
                  \cup (IF Truthy(u.title) THEN {"title"} ELSE {})
        hit == {r \in albums : r.id = album_id}
        rejected == /\ hit # {}
                    /\ foreign_keys
                    /\ "artist_id" \in fields /\ u.artist_id \notin Ids(artists)
        written(r) == [f \in DOMAIN r |-> IF f \in fields THEN u[f] ELSE r[f]]
    IN /\ call' = [op |-> "Album.update", id |-> album_id, args |-> u]
       /\ albums' = IF fields = {} \/ rejected THEN albums
                    ELSE {IF r \in hit THEN written(r) ELSE r : r \in albums}
       /\ result' = IF fields = {} THEN IntResult(0)
                    ELSE IF rejected THEN EmptyList
                    ELSE IntResult(Cardinality(hit))
       /\ UNCHANGED <<table_columns, foreign_keys, artists, tracks, playlists, playlist_tracks,
                      sqlite_sequence, audio_folder, covers_folder, uuids,
                      backups, add_log>>

\* ------------------------------------------------------------- get_tracks
\* The rows of Playlist.get_tracks before ORDER BY: playlist_tracks JOIN
\* tracks LEFT JOIN artists WHERE pt.playlist_id = ?.
get_tracks_rows(p) ==
    {[id |-> t.id, title |-> t.title, duration |-> t.duration,
      artist_name |-> ArtistName(t.artist_id), position |-> r.position] :
        <<r, t>> \in {x \in RowsOf(playlist_tracks, p) \X tracks :
                         x[1].track_id = x[2].id}}

\* Playlist.get_tracks: every list ORDER BY pt.position may return (rows of
\* equal position come in an order SQL leaves open).
get_tracks(p) ==
    LET rows == get_tracks_rows(p)
        n == Cardinality(rows)
    IN {s \in [1..n -> rows] :
           /\ \A i, j \in 1..n : i # j => s[i] # s[j]
           /\ \A i, j \in 1..n : i < j => s[i].position <= s[j].position}

\* ------------------------------------------------------------- specification
Tables == {"artists", "albums", "tracks", "playlists"}

Init ==
    /\ foreign_keys \in BOOLEAN
    /\ table_columns = create_tables
    /\ artists = {}
    /\ albums = {}
    /\ tracks = {}
    /\ playlists = {}
    /\ playlist_tracks = {}
    /\ sqlite_sequence = [t \in Tables |-> 0]
    /\ audio_folder = {}
    /\ covers_folder = {}
    /\ uuids = 0
    /\ backups = {}
    /\ call = [op |-> "MusicLibrary.__init__"]
    /\ result = None
    /\ add_log = [q \in PlaylistIds |-> EmptyLog]

\* The name given to the next playlist: playlists are named by their number.
NextPlaylistName == ToString(NextId(playlists, "playlists"))

\* Arguments of a plain Track.add: a readable audio file, no cover.
PlainTrack ==
    [title |-> "t", file_path |-> "ok", cover_path |-> "none",
     artist_id |-> NULL, album_id |-> NULL, duration |-> NULL,
     lyrics |-> NoText]

\* Guards that keep the model finite: ids and positions stay in range.
TracksBelow(n) == sqlite_sequence["tracks"] < n
PlaylistsBelow(n) == sqlite_sequence["playlists"] < n
PositionsBelow(p, n) == \A r \in RowsOf(playlist_tracks, p) : r.position < n

\* The library: playlists and tracks come and go, tracks enter, leave and
\* move inside playlists.
Next ==
    \/ PlaylistsBelow(MaxPlaylists) /\ Playlist_create(NextPlaylistName)
    \/ \E p \in PlaylistIds : Playlist_delete(p)
    \/ TracksBelow(MaxTracks) /\ Track_add(PlainTrack, FALSE)
    \/ \E t \in TrackIds : Track_delete(t, "none")
    \/ \E p \in PlaylistIds, t \in TrackIds :
           PositionsBelow(p, MaxPosition) /\ Playlist_add_track(p, t)
    \/ \E p \in PlaylistIds, t \in TrackIds : Playlist_remove_track(p, t)
    \/ \E p \in PlaylistIds, t \in TrackIds, n \in Positions :
           Playlist_change_track_position(p, t, n)

Spec == Init /\ [][Next]_vars

\* The row and the file the i-th plain Track.add of a new library leaves.
LibraryTrack(i) ==
    [id |-> i, title |-> PlainTrack.title, artist_id |-> NULL,
     album_id |-> NULL, duration |-> NULL, file_path |-> i,
     cover_path |-> NULL, lyrics |-> NoText]

\* A library in use: OrderingTracks tracks have been added to a new library
\* and then the first playlist was created.
InitOrdering ==
    /\ foreign_keys \in BOOLEAN
    /\ table_columns = create_tables
    /\ artists = {}
    /\ albums = {}
    /\ tracks = {LibraryTrack(i) : i \in OrderingTrackIds}
    /\ playlists = {[id |-> 1, name |-> "1"]}
    /\ playlist_tracks = {}
    /\ sqlite_sequence = [t \in Tables |->
                             IF t = "tracks" THEN OrderingTracks
                             ELSE IF t = "playlists" THEN 1 ELSE 0]
    /\ audio_folder = OrderingTrackIds
    /\ covers_folder = {}
    /\ uuids = OrderingTracks
    /\ backups = {}
    /\ call = [op |-> "Playlist.create", name |-> "1"]
    /\ result = IntResult(1)
    /\ add_log = [q \in PlaylistIds |-> EmptyLog]

\* The ordering engine on the playlist of that library: its tracks enter,
\* leave and move inside the playlist.
NextOrdering ==
    \/ \E t \in OrderingTrackIds :
           PositionsBelow(1, OrderingTracks) /\ Playlist_add_track(1, t)
    \/ \E t \in OrderingTrackIds : Playlist_remove_track(1, t)
    \/ \E t \in OrderingTrackIds, n \in OrderingPositions :
           Playlist_change_track_position(1, t, n)

SpecOrdering == InitOrdering /\ [][NextOrdering]_vars

\* ------------------------------------------------------------- files
\* Arguments of Track.add: a title or none, an audio source that is readable
\* or missing, and a cover source that is not given, readable or missing.
TrackArgs ==
    [title : {"t", NoText}, file_path : {"ok", "missing"},
     cover_path : {"none", "ok", "missing"}, artist_id : {NULL},
     album_id : {NULL}, duration : {NULL}, lyrics : {NoText}]

\* Room for the two uuid names one Track.add may generate.
UuidsBelow(n) == uuids + 2 <= n

\* The Track repository and its managed files: tracks are added and deleted,
\* with sources that may be missing and statements that may fail.
NextFiles ==
    \/ \E a \in TrackArgs, fault \in BOOLEAN :
           UuidsBelow(MaxFiles) /\ Track_add(a, fault)
    \/ \E t \in 1..MaxFiles, fault \in {"none", "select", "delete"} :
           Track_delete(t, fault)

SpecFiles == Init /\ [][NextFiles]_vars

\* A managed file disappears from its folder behind the program's back.
FileLost(f) ==
    /\ f \in audio_folder \cup covers_folder
    /\ call' = [op |-> "os.remove", path |-> f]
    /\ audio_folder' = audio_folder \ {f}
    /\ covers_folder' = covers_folder \ {f}
    /\ result' = None
    /\ UNCHANGED <<table_columns, foreign_keys, artists, albums, tracks, playlists,
                   playlist_tracks, sqlite_sequence, uuids, backups, add_log>>

\* Deletion of tracks whose files may be gone: tracks are added with or
\* without a cover, files are lost, tracks are deleted.
NextDelete ==
    \/ \E a \in TrackArgs :
           UuidsBelow(MaxFiles) /\ Track_add(a, FALSE)
    \/ \E f \in 1..MaxFiles : FileLost(f)
    \/ \E t \in 1..MaxFiles, fault \in {"none", "select", "delete"} :
           Track_delete(t, fault)

SpecDelete == Init /\ [][NextDelete]_vars

\* ------------------------------------------------------------- migration
TableNames == {"artists", "albums", "tracks", "playlists", "playlist_tracks"}

\* The content of the database file at db_path.
Database ==
    [artists |-> artists, albums |-> albums, tracks |-> tracks,
     playlists |-> playlists, playlist_tracks |-> playlist_tracks,
     sqlite_sequence |-> sqlite_sequence]

\* create_new_database: the file is removed and create_tables makes the five
\* empty tables again.
create_new_database ==
    [artists |-> {}, albums |-> {}, tracks |-> {}, playlists |-> {},
     playlist_tracks |-> {}, sqlite_sequence |-> [t \in Tables |-> 0]]

\* Whether INSERT OR IGNORE of row into the table skips it: a row with the
\* same primary key is there already.
Ignored(rows, table, row) ==
    IF table = "playlist_tracks"
    THEN \E r \in rows : r.playlist_id = row.playlist_id /\ r.track_id = row.track_id
    ELSE \E r \in rows : r.id = row.id

\* SELECT * FROM table on the old database; [] when the statement fails.
old_data(old_db, table, fault) ==
    IF fault = "select" THEN {} ELSE old_db[table]

\* transfer_data: for each table the rows read from the old database are
\* inserted (OR IGNORE) into the new one, ids included, which moves the
\* AUTOINCREMENT counter up to the largest id inserted.
transfer_data(new_db, old_db, fault) ==
    LET rows(t) == new_db[t] \cup
                      {r \in old_data(old_db, t, fault) : ~Ignored(new_db[t], t, r)}
    IN [artists |-> rows("artists"), albums |-> rows("albums"),
        tracks |-> rows("tracks"), playlists |-> rows("playlists"),
        playlist_tracks |-> rows("playlist_tracks"),
        sqlite_sequence |->
            [t \in Tables |-> Max({new_db.sqlite_sequence[t]} \cup Ids(rows(t)))]]

\* The name of a new backup file: db_path.backup_<time>, later than the
\* backups already there.
backup_path == Max({0} \cup {b.path : b \in backups}) + 1

\* migrate_database.  fault names the statement that meets a storage error
\* inside execute, which prints it and returns []:
\*   "create"  a CREATE TABLE of create_new_database (the table is created by
\*             the create_tables of the DatabaseManager that transfer_data
\*             constructs),
\*   "select"  the SELECT * statements of transfer_data,
\*   "count"   a SELECT COUNT(*) of the verification loop, whose [0] then
\*             raises IndexError,
\*   "none"    no statement.
\* The files are db_path, holding the store, and the backup.
migrate_database(fault) ==
    LET backup == [path |-> backup_path, db |-> Database]
        new_database == create_new_database
        \* old_db_path = self.db_path: transfer_data reads the file at the
        \* path where the new database now is.
        old_db_path == new_database
        transferred == transfer_data(new_database, old_db_path, fault)
        raised == fault = "count"
        final == IF raised THEN backup.db ELSE transferred
    IN /\ call' = [op |-> "DatabaseManager.migrate_database", fault |-> fault,
                   backup_path |-> backup.path]
       /\ artists' = final.artists
       /\ albums' = final.albums
       /\ tracks' = final.tracks
       /\ playlists' = final.playlists
       /\ playlist_tracks' = final.playlist_tracks
       /\ sqlite_sequence' = final.sqlite_sequence
       /\ backups' = IF raised THEN backups \cup {backup} ELSE backups
       /\ result' = IF raised THEN Raised ELSE None
       /\ add_log' = Logged(playlist_tracks', tracks', NULL, NULL)
       /\ table_columns' = IF raised THEN table_columns ELSE create_tables
       /\ UNCHANGED <<foreign_keys, audio_folder, covers_folder, uuids>>

\* Migration of a library in use: tracks and a playlist are added, tracks
\* are put into the playlist, and the store is migrated.
NextMigrate ==
    \/ PlaylistsBelow(1) /\ Playlist_create(NextPlaylistName)
    \/ TracksBelow(MaxTracks) /\ UuidsBelow(MaxFiles)
           /\ Track_add(PlainTrack, FALSE)
    \/ \E t \in TrackIds :
           PositionsBelow(1, MaxPosition) /\ Playlist_add_track(1, t)
    \/ \E fault \in {"none", "create", "select", "count"} :
           Cardinality(backups) < MaxBackups /\ migrate_database(fault)

SpecMigrate == Init /\ [][NextMigrate]_vars

\* ------------------------------------------------------------- catalog
ArtistsBelow(n) == sqlite_sequence["artists"] < n
AlbumsBelow(n) == sqlite_sequence["albums"] < n

\* The catalog: artists are got or created, renamed and deleted, albums are
\* got or created with an artist reference or none.
NextCatalog ==
    \/ \E name \in ArtistNames :
           /\ ArtistsBelow(MaxArtists) \/ name \in {r.name : r \in artists}
           /\ MusicLibrary_add_artist(name)
    \/ \E a \in ArtistIds, name \in ArtistNames : Artist_update(a, name)
    \/ \E a \in ArtistIds : Artist_delete(a)
    \/ \E title \in AlbumTitles, a \in ArtistIds \cup {NULL} :
           /\ AlbumsBelow(MaxAlbums) \/ get_by_title_and_artist(title, a) # {}
           /\ MusicLibrary_add_album(title, a, NULL)

SpecCatalog == Init /\ [][NextCatalog]_vars

\* The storage gateway alone: statements are executed one by one, on a store
\* that another connection may hold locked.
NextExecute ==
    \E query \in Queries, locked \in BOOLEAN :
        /\ ArtistsBelow(MaxArtists) \/ StatementError(artists, query, locked)
               \/ query.sql # "INSERT INTO artists (name) VALUES (?)"
        /\ DatabaseManager_execute(query, locked)

SpecExecute == Init /\ [][NextExecute]_vars

\* The catalog with tracks: a track with a reference to an artist or none is
\* added beside the artists and albums.
NextRefs ==
    \/ NextCatalog
    \/ \E a \in ArtistIds \cup {NULL} :
           /\ TracksBelow(1) /\ UuidsBelow(MaxFiles)
           /\ Track_add([PlainTrack EXCEPT !.artist_id = a], FALSE)

SpecRefs == Init /\ [][NextRefs]_vars

\* ------------------------------------------------------------- updates
\* A library with artist 1, its album 1 and a track 1 of both, as add_artist,
\* add_album and Track.add leave it.
InitUpdate ==
    /\ foreign_keys \in BOOLEAN
    /\ table_columns = create_tables
    /\ artists = {[id |-> 1, name |-> "a"]}
    /\ albums = {[id |-> 1, title |-> "x", artist_id |-> 1, year |-> NULL]}
    /\ tracks = {[LibraryTrack(1) EXCEPT !.artist_id = 1, !.album_id = 1]}
    /\ playlists = {}
    /\ playlist_tracks = {}
    /\ sqlite_sequence = [t \in Tables |-> IF t = "playlists" THEN 0 ELSE 1]
    /\ audio_folder = {1}
    /\ covers_folder = {}
    /\ uuids = 1
    /\ backups = {}
    /\ call = [op |-> "Track.add",
               args |-> [PlainTrack EXCEPT !.artist_id = 1, !.album_id = 1],
               fault |-> FALSE]
    /\ result = IntResult(1)
    /\ add_log = [q \in PlaylistIds |-> EmptyLog]

\* Ids given to the updates: 1 is in the library, 2 is not.
UpdateIds == {1, 2}

\* Arguments of Album.update: each absent, or a value: an empty or a new
\* title, the artist that is not in the library, the year 0.
AlbumUpdates ==
    [title : {NoText, "", "y"}, artist_id : {NULL, 2}, year : {NULL, 0}]

\* Arguments of Track.update: each absent, or a value: an empty or a new
\* title, the artist or the album that is not in the library, empty lyrics.
TrackUpdates ==
    {u \in [title : {NoText, "", "y"}, artist_id : {NULL, 2},
            album_id : {NULL, 2}, duration : {NULL}, lyrics : {NoText, ""}] :
        u.artist_id = NULL \/ u.album_id = NULL}

\* The album and the track of that library are updated.
NextUpdate ==
    \/ \E id \in UpdateIds, u \in AlbumUpdates : Album_update(id, u)
    \/ \E id \in UpdateIds, u \in TrackUpdates : Track_update(id, u)

SpecUpdate == InitUpdate /\ [][NextUpdate]_vars

\* ------------------------------------------------------------- durations
\* A format of n in decimal digits without padding.
Format02d_unpadded(n) == ToString(n)

\* f"{n:02d}" of a non-negative n: its decimal digits, with a zero before a
\* single digit.
Format02d(n) == IF n < 10 THEN "0" \o ToString(n) ELSE ToString(n)

\* Playlist._format_duration.
Playlist_format_duration(duration) ==
    LET hours == duration \div 3600
        remainder == duration % 3600
        minutes == remainder \div 60
        seconds == remainder % 60
    IN IF hours # 0
       THEN Format02d(hours) \o ":" \o Format02d(minutes) \o ":" \o Format02d(seconds)
       ELSE Format02d(minutes) \o ":" \o Format02d(seconds)

\* MusicLibrary.format_duration.
MusicLibrary_format_duration(duration) ==
    LET minutes == duration \div 60
        seconds == duration % 60
    IN Format02d(minutes) \o ":" \o Format02d(seconds)

\* A track formatter with the hours field of the playlist formatter.
Track_format_duration_hours(duration) == Playlist_format_duration(duration)

\* Track._format_duration.
Track_format_duration(duration) ==
    LET minutes == duration \div 60
        seconds == duration % 60
    IN Format02d(minutes) \o ":" \o Format02d(seconds)

\* ------------------------------------------------------------- get_info
\* Playlist.get: SELECT * FROM playlists WHERE id = ?.
Playlist_get(p) == {r \in playlists : r.id = p}

\* sum(track['duration'] for track in tracks if track['duration']): a NULL
\* or zero duration is skipped.
RECURSIVE total_duration(_)
total_duration(rows) ==
    IF rows = {} THEN 0
    ELSE LET track == CHOOSE r \in rows : TRUE
         IN (IF track.duration # NULL /\ track.duration # 0
             THEN track.duration ELSE 0) + total_duration(rows \ {track})

\* Playlist.get_info: None for a playlist Playlist.get does not find, else
\* the number of rows get_tracks returns and their formatted total duration.
Playlist_get_info(p) ==
    IF Playlist_get(p) = {} THEN None
    ELSE LET playlist == CHOOSE r \in Playlist_get(p) : TRUE
         IN [kind |-> "dict", id |-> playlist.id, name |-> playlist.name,
             track_count |-> Cardinality(get_tracks_rows(p)),
             total_duration |->
                 Playlist_format_duration(total_duration(get_tracks_rows(p)))]

\* A duration in seconds is given to the formatters.
InitFormat ==
    /\ foreign_keys \in BOOLEAN
    /\ table_columns = create_tables
    /\ artists = {}
    /\ albums = {}
    /\ tracks = {}
    /\ playlists = {}
    /\ playlist_tracks = {}
    /\ sqlite_sequence = [t \in Tables |-> 0]
    /\ audio_folder = {}
    /\ covers_folder = {}
    /\ uuids = 0
    /\ backups = {}
    /\ call \in {[op |-> "duration", duration |-> d] : d \in Durations}
    /\ result = None
    /\ add_log = [q \in PlaylistIds |-> EmptyLog]

\* The three formatters are applied to the duration.
FormatDuration ==
    /\ call.op = "duration"
    /\ call' = [op |-> "format_duration", duration |-> call.duration,
                playlist |-> Playlist_format_duration(call.duration),
                library |-> MusicLibrary_format_duration(call.duration),
                track |-> Track_format_duration(call.duration)]
    /\ UNCHANGED <<table_columns, foreign_keys, artists, albums, tracks, playlists,
                   playlist_tracks, sqlite_sequence, audio_folder,
                   covers_folder, uuids, backups, result, add_log>>

SpecFormat == InitFormat /\ [][FormatDuration]_vars

\* ------------------------------------------------------------- queries
\* The public methods class Track and class Playlist define.
Track_methods == {"add", "get", "get_info", "update", "delete"}
Playlist_methods ==
    {"create", "get", "update", "delete", "add_track", "remove_track",
     "change_track_position", "get_tracks", "get_info"}

\* MusicLibrary.get_all_tracks: return self.tracks.get_all().  The lookup of
\* an attribute the object does not have raises AttributeError.
MusicLibrary_get_all_tracks ==
    /\ call' = [op |-> "MusicLibrary.get_all_tracks"]
    /\ result' = IF "get_all" \in Track_methods
                 THEN ListResult(Cardinality(tracks)) ELSE Raised
    /\ UNCHANGED <<table_columns, foreign_keys, artists, albums, tracks, playlists,
                   playlist_tracks, sqlite_sequence, audio_folder,
                   covers_folder, uuids, backups, add_log>>

\* MusicLibrary.get_all_playlists: return self.playlists.get_all().
MusicLibrary_get_all_playlists ==
    /\ call' = [op |-> "MusicLibrary.get_all_playlists"]
    /\ result' = IF "get_all" \in Playlist_methods
                 THEN ListResult(Cardinality(playlists)) ELSE Raised
    /\ UNCHANGED <<table_columns, foreign_keys, artists, albums, tracks, playlists,
                   playlist_tracks, sqlite_sequence, audio_folder,
                   covers_folder, uuids, backups, add_log>>

\* MainController.show_window: the view is shown, then update_track_list
\* hands the result of MusicLibrary.get_all_tracks to the view; an exception
\* of get_all_tracks leaves show_window.
MainController_show_window ==
    /\ call' = [op |-> "MainController.show_window"]
    /\ result' = IF "get_all" \in Track_methods THEN None ELSE Raised
    /\ UNCHANGED <<table_columns, foreign_keys, artists, albums, tracks, playlists,
                   playlist_tracks, sqlite_sequence, audio_folder,
                   covers_folder, uuids, backups, add_log>>

\* The title of the album a track row names (LEFT JOIN albums): NULL when
\* there is no such album.
AlbumTitle(album_id) ==
    IF album_id \in Ids(albums)
    THEN (CHOOSE a \in albums : a.id = album_id).title
    ELSE NoText

\* x or default: the default stands for None and for the empty string.
OrDefault(x, default) == IF x = NoText \/ x = "" THEN default ELSE x

\* Track.get_info: None when the SELECT finds no row; else the row with the
\* defaults for a missing artist, album and lyrics and the formatted
\* duration.  _format_duration is divmod(duration, 60), which raises
\* TypeError for None.
Track_get_info(track_id) ==
    LET rows == {r \in tracks : r.id = track_id}
        track == CHOOSE r \in rows : TRUE
    IN /\ call' =
              [op |-> "Track.get_info", track_id |-> track_id,
               info |->
                   IF rows = {} \/ track.duration = NULL THEN <<>>
                   ELSE <<track.title,
                          OrDefault(ArtistName(track.artist_id),
                                    "Unknown Artist"),
                          OrDefault(AlbumTitle(track.album_id),
                                    "Unknown Album"),
                          Track_format_duration(track.duration),
                          OrDefault(track.lyrics, "No lyrics provided")>>]
       /\ result' = IF rows = {} THEN None
                    ELSE IF track.duration = NULL THEN Raised
                    ELSE [kind |-> "dict", val |-> track.id]
       /\ UNCHANGED <<table_columns, foreign_keys, artists, albums, tracks, playlists,
                      playlist_tracks, sqlite_sequence, audio_folder,
                      covers_folder, uuids, backups, add_log>>

\* The tracks given to Track.add: with or without a duration, an artist and
\* lyrics.
QueryTracks ==
    [title : {"t"}, file_path : {"ok"}, cover_path : {"none"},
     artist_id : {NULL, 1}, album_id : {NULL}, duration : {NULL, 125},
     lyrics : {NoText, "la"}]

\* The library as the window and the info panes read it: artists, tracks and
\* playlists are added, the lists and the info of a track are asked for.
NextQueries ==
    \/ \E name \in ArtistNames :
           ArtistsBelow(1) /\ MusicLibrary_add_artist(name)
    \/ \E a \in QueryTracks :
           /\ TracksBelow(MaxTracks) /\ UuidsBelow(MaxFiles)
           /\ Track_add(a, FALSE)
    \/ PlaylistsBelow(MaxPlaylists) /\ Playlist_create(NextPlaylistName)
    \/ MusicLibrary_get_all_tracks
    \/ MusicLibrary_get_all_playlists
    \/ MainController_show_window
    \/ \E t \in TrackIds : Track_get_info(t)

SpecQueries == Init /\ [][NextQueries]_vars

\* ------------------------------------------------------------- schema
\* The statement ALTER TABLE table ADD COLUMN column type meets a storage
\* error when the table does not exist or has a column of that name.
AlterRejected(table, column) ==
    table \notin DOMAIN table_columns \/ column \in table_columns[table]

\* The columns after DatabaseManager.add_column: execute runs the ALTER TABLE
\* statement, and prints and swallows its error.
add_column(table, column, type) ==
    IF AlterRejected(table, column) THEN table_columns
    ELSE [table_columns EXCEPT ![table] = @ \cup {column}]

\* DatabaseManager.add_column returns None, whether or not the column was
\* added.
DatabaseManager_add_column(table, column, type) ==
    /\ call' = [op |-> "DatabaseManager.add_column", table |-> table,
                column |-> column, type |-> type]
    /\ table_columns' = add_column(table, column, type)
    /\ result' = None
    /\ UNCHANGED <<foreign_keys, artists, albums, tracks, playlists,
                   playlist_tracks, sqlite_sequence, audio_folder,
                   covers_folder, uuids, backups, add_log>>

\* DatabaseManager.table_info: the result of execute for the statement
\* PRAGMA table_info(table_name).  execute returns the rows of a statement
\* that starts with SELECT; for any other it returns lastrowid or else
\* rowcount, which is -1 after a PRAGMA.
table_info(table_name) ==
    LET query == [sql |-> "PRAGMA table_info(?)", name |-> table_name,
                  id |-> NULL]
        names == IF table_name \in DOMAIN table_columns
                 THEN table_columns[table_name] ELSE {}
    IN IF IsSelect(query) THEN ListResult(Cardinality(names))
       ELSE IntResult(-1)

\* DatabaseManager.ensure_column_exists: the names are read off the rows of
\* table_info (iterating over an int raises TypeError), and add_column is
\* called when the column is not among them.
DatabaseManager_ensure_column_exists(table, column, type) ==
    LET columns == IF table \in DOMAIN table_columns
                   THEN table_columns[table] ELSE {}
    IN /\ call' = [op |-> "DatabaseManager.ensure_column_exists",
                   table |-> table, column |-> column, type |-> type]
       /\ IF table_info(table).kind # "list"
          THEN /\ result' = Raised
               /\ UNCHANGED table_columns
          ELSE /\ result' = None
               /\ table_columns' = IF column \notin columns
                                   THEN add_column(table, column, type)
                                   ELSE table_columns
       /\ UNCHANGED <<foreign_keys, artists, albums, tracks, playlists,
                      playlist_tracks, sqlite_sequence, audio_folder,
                      covers_folder, uuids, backups, add_log>>

\* The tables, columns and types given to the two operations: tables the
\* schema has and one it has not, columns it has and ones it has not.
SchemaTables == {"albums", "tracks", "genres"}
SchemaColumns == {"year", "genre", "rating"}
SchemaTypes == {"TEXT", "INTEGER"}

\* The schema in use: artists are added, columns are added and ensured.
NextSchema ==
    \/ \E name \in ArtistNames :
           ArtistsBelow(MaxArtists) /\ MusicLibrary_add_artist(name)
    \/ \E table \in SchemaTables, column \in SchemaColumns,
          type \in SchemaTypes :
           \/ DatabaseManager_add_column(table, column, type)
           \/ DatabaseManager_ensure_column_exists(table, column, type)

SpecSchema == Init /\ [][NextSchema]_vars

\* ------------------------------------------------------------- two playlists
\* The two playlists of the locality properties and the two tracks that
\* enter them.
LocalPlaylistIds == {1, 2}
LocalTrackIds == {1, 2}

\* A library in use: two tracks have been added to a new library and then
\* two playlists were created.
InitLocal ==
    /\ foreign_keys \in BOOLEAN
    /\ table_columns = create_tables
    /\ artists = {}
    /\ albums = {}
    /\ tracks = {LibraryTrack(i) : i \in LocalTrackIds}
    /\ playlists = {[id |-> i, name |-> ToString(i)] : i \in LocalPlaylistIds}
    /\ playlist_tracks = {}
    /\ sqlite_sequence = [t \in Tables |->
                             IF t \in {"tracks", "playlists"} THEN 2 ELSE 0]
    /\ audio_folder = LocalTrackIds
    /\ covers_folder = {}
    /\ uuids = 2
    /\ backups = {}
    /\ call = [op |-> "Playlist.create", name |-> "2"]
    /\ result = IntResult(2)
    /\ add_log = [q \in PlaylistIds |-> EmptyLog]

\* Tracks are put into, taken out of and moved inside the two playlists.
NextLocal ==
    \/ \E p \in LocalPlaylistIds, t \in LocalTrackIds :
           PositionsBelow(p, MaxPosition) /\ Playlist_add_track(p, t)
    \/ \E p \in LocalPlaylistIds, t \in LocalTrackIds :
           Playlist_remove_track(p, t)
    \/ \E p \in LocalPlaylistIds, t \in LocalTrackIds, n \in Positions :
           Playlist_change_track_position(p, t, n)

SpecLocal == InitLocal /\ [][NextLocal]_vars

\* ------------------------------------------------------------- properties
\* The album rows with the (title, artist) pair, two absent artist
\* references being the same reference.
AlbumsOf(rows, title, artist_id) ==
    {r \in rows : r.title = title /\ r.artist_id = artist_id}

\* C12: under sequential use add_album never leaves two album rows with the
\* same (title, artist) pair, an absent artist reference included: when it
\* returns an id, exactly one row has the pair of the call, and it has that id.
C12_AddAlbumNoDuplicates ==
    (call.op = "MusicLibrary.add_album" /\ result.kind = "int") =>
        /\ Cardinality(AlbumsOf(albums, call.title, call.artist_id)) = 1
        /\ \A r \in AlbumsOf(albums, call.title, call.artist_id) :
               r.id = result.val

\* The artist rows of a name.
ArtistsNamed(rows, name) == {r \in rows : r.name = name}

\* C13: add_artist is an idempotent get-or-create: it returns the id of the
\* one row that has the name after the call, which is the row that had it
\* before the call if there was one; and no call but an Artist.delete or an
\* Artist.update of that artist removes or renames the row, so that a second
\* add_artist of the name returns the same id.
C13_AddArtistGetOrCreate ==
    [][ /\ ( /\ call'.op = "MusicLibrary.add_artist"
             /\ MusicLibrary_add_artist(call'.name) )
           => /\ result'.kind = "int"
              /\ Cardinality(ArtistsNamed(artists', call'.name)) = 1
              /\ \A r \in ArtistsNamed(artists', call'.name) : r.id = result'.val
              /\ \A r \in ArtistsNamed(artists, call'.name) : r.id = result'.val
        /\ \A r \in artists :
              r \notin artists' =>
                  /\ call'.op \in {"Artist.delete", "Artist.update"}
                  /\ call'.artist_id = r.id
      ]_vars

\* C13 witness: add_artist created artist 1, then artist 2, and the last
\* call, add_artist of the name of artist 1, returned 1.
C13_Witness ==
    /\ call.op = "MusicLibrary.add_artist"
    /\ result = IntResult(1)
    /\ sqlite_sequence["artists"] = 2
    /\ [id |-> 1, name |-> call.name] \in artists
    /\ 2 \in Ids(artists)

Members(pt, p) == {r.track_id : r \in RowsOf(pt, p)}

\* A dense playlist as the list of its track ids in position order.
Listing(pt, p) ==
    [i \in 1..Cardinality(RowsOf(pt, p)) |->
        (CHOOSE r \in RowsOf(pt, p) : r.position = i).track_id]

RemoveAt(L, c) ==
    [i \in 1..(Len(L) - 1) |-> IF i < c THEN L[i] ELSE L[i + 1]]

InsertAt(L, n, x) ==
    [i \in 1..(Len(L) + 1) |->
        IF i < n THEN L[i] ELSE IF i = n THEN x ELSE L[i - 1]]

\* C1: after any sequence of add_track, remove_track and
\* change_track_position calls, with any track ids and any new_position, the
\* positions of every playlist are exactly 1..N, N its number of rows.
C1_DensityInvariant ==
    \A p \in PlaylistIds : Dense(playlist_tracks, p)

\* C2: N distinct existing tracks added one by one to an empty playlist are
\* listed by get_tracks in reverse insertion order, at positions 1..N.
C2_ReverseInsertionOrder ==
    \A p \in PlaylistIds :
        add_log[p].clean =>
            LET log == add_log[p].seq
                N == Len(log)
            IN /\ get_tracks(p) # {}
               /\ \A s \in get_tracks(p) :
                     /\ Len(s) = N
                     /\ \A i \in 1..N :
                           s[i].id = log[N + 1 - i] /\ s[i].position = i

\* C2 witness: every track of the library was added to playlist 1, the last
\* call being the add_track of the last of them, in an order that is not the
\* order of their ids.
C2_Witness ==
    /\ call.op = "Playlist.add_track"
    /\ result = NewRowId
    /\ add_log[1].clean
    /\ Len(add_log[1].seq) = OrderingTracks
    /\ add_log[1].seq[1] = 2
    /\ 1 \in Ids(playlists)

\* C9: in a dense playlist, moving the member at position c to a position n
\* in 1..N other than c gives the list with the track taken out and put back
\* at index n: the members in (c, n] move back by one (c < n), those in
\* [n, c) move forward by one (c > n), the moved track ends at n, the others
\* stay, and the playlist is dense again.
C9_MoveIsReinsert ==
    [][LET p == call'.playlist_id
           t == call'.track_id
           n == call'.new_position
       IN ( /\ call'.op = "Playlist.change_track_position"
            /\ Playlist_change_track_position(p, t, n)
            /\ Dense(playlist_tracks, p)
            /\ t \in Members(playlist_tracks, p)
            /\ 1 <= n /\ n <= Cardinality(RowsOf(playlist_tracks, p))
            /\ n # PositionOf(playlist_tracks, p, t) )
          => LET c == PositionOf(playlist_tracks, p, t)
             IN /\ Dense(playlist_tracks', p)
                /\ Members(playlist_tracks', p) = Members(playlist_tracks, p)
                /\ Listing(playlist_tracks', p) =
                       InsertAt(RemoveAt(Listing(playlist_tracks, p), c), n, t)
                /\ PositionOf(playlist_tracks', p, t) = n
                /\ \A r \in RowsOf(playlist_tracks, p) :
                      r.track_id # t =>
                          PositionOf(playlist_tracks', p, r.track_id) =
                              IF c < n /\ c < r.position /\ r.position <= n
                              THEN r.position - 1
                              ELSE IF n < c /\ n <= r.position /\ r.position < c
                              THEN r.position + 1
                              ELSE r.position
       ]_vars

\* C9 witness: a dense playlist of all the tracks in which the last call
\* moved the first track to the last position, past the tracks in between.
C9_Witness ==
    /\ call.op = "Playlist.change_track_position"
    /\ call.dense
    /\ call.position = 1
    /\ call.new_position = OrderingTracks
    /\ result = IntResult(1)
    /\ Cardinality(RowsOf(playlist_tracks, 1)) = OrderingTracks
    /\ Dense(playlist_tracks, 1)
    /\ 1 \in Ids(playlists)
    /\ Members(playlist_tracks, 1) \subseteq Ids(tracks)

\* C11: change_track_position of a member to the position it already has
\* returns 0 and leaves the position of that track and of every other member
\* as it was.
C11_MoveToOwnPositionIsNoOp ==
    [][LET p == call'.playlist_id
           t == call'.track_id
       IN ( /\ call'.op = "Playlist.change_track_position"
            /\ t \in Members(playlist_tracks, p)
            /\ call'.new_position = PositionOf(playlist_tracks, p, t)
            /\ Playlist_change_track_position(p, t, call'.new_position) )
          => /\ result' = IntResult(0)
             /\ RowsOf(playlist_tracks', p) = RowsOf(playlist_tracks, p)
             /\ playlist_tracks' = playlist_tracks
      ]_vars

\* C11 witness: in a playlist of all the tracks the last call moved the
\* member at position 2 to position 2.
C11_Witness ==
    /\ call.op = "Playlist.change_track_position"
    /\ call.position = 2
    /\ call.new_position = 2
    /\ result = IntResult(0)
    /\ Cardinality(RowsOf(playlist_tracks, 1)) = OrderingTracks
    /\ PositionOf(playlist_tracks, 1, call.track_id) = 2

\* The order of two members of a playlist: a is listed before b.
ListedBefore(pt, p, a, b) == PositionOf(pt, p, a) < PositionOf(pt, p, b)

\* C10: remove_track of a track that is no member returns 0 and changes no
\* row; for a member at position c it deletes that pair only, moves every
\* member after c back by one, and leaves the members before c and the order
\* of the remaining members as they were.
C10_RemoveTrack ==
    [][LET p == call'.playlist_id
           t == call'.track_id
       IN ( /\ call'.op = "Playlist.remove_track"
            /\ Playlist_remove_track(p, t) ) =>
             IF t \notin Members(playlist_tracks, p)
             THEN result' = IntResult(0) /\ playlist_tracks' = playlist_tracks
             ELSE LET c == PositionOf(playlist_tracks, p, t)
                      rest == Members(playlist_tracks, p) \ {t}
                  IN /\ Members(playlist_tracks', p) = rest
                     /\ \A a \in rest :
                           PositionOf(playlist_tracks', p, a) =
                               IF PositionOf(playlist_tracks, p, a) > c
                               THEN PositionOf(playlist_tracks, p, a) - 1
                               ELSE PositionOf(playlist_tracks, p, a)
                     /\ \A a, b \in rest :
                           ListedBefore(playlist_tracks', p, a, b) <=>
                               ListedBefore(playlist_tracks, p, a, b)
       ]_vars

\* C6: playlist_tracks rows are cascade-deleted: once Playlist.delete(p) has
\* deleted playlist p no row of playlist p remains, and once Track.delete(t)
\* has deleted track t no row of track t remains.
C6_CascadeDelete ==
    /\ (call.op = "Playlist.delete" /\ result = IntResult(1)) =>
           \A r \in playlist_tracks : r.playlist_id # call.playlist_id
    /\ (call.op = "Track.delete" /\ result = IntResult(1)) =>
           \A r \in playlist_tracks : r.track_id # call.track_id

\* The positions at which get_tracks lists the members of playlist p.
ListedPositions(p) == {r.position : r \in get_tracks_rows(p)}

\* C7: Track.delete of a track that is a member of playlists keeps them
\* dense: a playlist that listed its members at positions 1..N before the
\* call lists the remaining ones at positions 1..N', N' their number.
C7_TrackDeleteKeepsDensity ==
    [][( /\ call'.op = "Track.delete"
         /\ Track_delete(call'.track_id, call'.fault)
         /\ result' = IntResult(1) )
       => \A p \in PlaylistIds :
             ( /\ call'.track_id \in Members(playlist_tracks, p)
               /\ Members(playlist_tracks, p) \subseteq Ids(tracks)
               /\ Dense(playlist_tracks, p) )
             => ListedPositions(p)' = 1..Cardinality(get_tracks_rows(p)')
      ]_vars

\* The number of rows of each of the five tables.
RowCounts(db) == [t \in TableNames |-> Cardinality(db[t])]

\* C3: a migration that completes preserves the data: each of the five
\* tables has as many rows after it as before it.
C3_MigrationPreservesRowCounts ==
    [][( /\ call'.op = "DatabaseManager.migrate_database"
         /\ migrate_database(call'.fault)
         /\ result' = None )
       => RowCounts(Database') = RowCounts(Database)
      ]_vars

\* C4: when a step of migrate_database after the backup fails, a storage
\* error inside an execute call included, the store (here one that holds
\* rows) is as it was before the migration when migrate_database returns
\* control, and the failure is raised to the caller.
C4_FailedMigrationRestores ==
    [][( /\ call'.op = "DatabaseManager.migrate_database"
         /\ migrate_database(call'.fault)
         /\ call'.fault # "none"
         /\ \E t \in TableNames : Database[t] # {} )
       => Database' = Database /\ result' = Raised
      ]_vars

\* C5: the backup is removed only on verified success: when the row counts
\* of the migrated store differ from those before the migration, the backup
\* file is still there after migrate_database.
C5_BackupKeptUnlessVerified ==
    [][( /\ call'.op = "DatabaseManager.migrate_database"
         /\ migrate_database(call'.fault)
         /\ RowCounts(Database') # RowCounts(Database) )
       => \E b \in backups' : b.path = call'.backup_path /\ b.db = Database
      ]_vars

\* C8: a managed audio file is on disk exactly when one track row has it as
\* its file_path, after any Track.add and Track.delete calls, failing
\* statements included.
C8_AudioFilesMatchRows ==
    \A f \in audio_folder \cup {r.file_path : r \in tracks} :
        (f \in audio_folder) <=>
            Cardinality({r \in tracks : r.file_path = f}) = 1

\* C14: a statement whose execution fails with a storage error (a
\* constraint violation, a missing table, a locked store) makes execute
\* return the empty list without raising, and leaves the content of the
\* store as it was.
C14_ExecuteFailSoft ==
    [][( /\ call'.op = "DatabaseManager.execute"
         /\ DatabaseManager_execute(call'.query, call'.locked)
         /\ StatementError(artists, call'.query, call'.locked) )
       => /\ result' = EmptyList
          /\ result' # Raised
          /\ Database' = Database
      ]_vars

\* C14 witness: the last statement, an INSERT of a name an artist already
\* has, on a store that is not locked, returned the empty list.
C14_Witness ==
    /\ call.op = "DatabaseManager.execute"
    /\ call.query.sql = "INSERT INTO artists (name) VALUES (?)"
    /\ ~call.locked
    /\ \E r \in artists : r.name = call.query.name
    /\ result = EmptyList
    /\ Cardinality(artists) = MaxArtists

\* C15: Track.delete of an id no track has returns 0 and leaves the five
\* tables and the managed files on disk as they were.
C15_DeleteMissingTrack ==
    [][( /\ call'.op = "Track.delete"
         /\ Track_delete(call'.track_id, call'.fault)
         /\ call'.fault = "none"
         /\ call'.track_id \notin Ids(tracks) )
       => /\ result' = IntResult(0)
          /\ Database' = Database
          /\ audio_folder' = audio_folder
          /\ covers_folder' = covers_folder
      ]_vars

\* C15 witness: the last call deleted an id no track has, in a library that
\* has a track with its audio and cover files on disk.
C15_Witness ==
    /\ call.op = "Track.delete"
    /\ call.fault = "none"
    /\ call.track_id \notin Ids(tracks)
    /\ call.audio = "none"
    /\ result = IntResult(0)
    /\ \E r \in tracks : r.file_path \in audio_folder /\ r.cover_path \in covers_folder

\* C16: Track.delete of an existing track returns 1 without raising, deletes
\* the row, and leaves neither its audio file nor its cover file on disk,
\* whether each was there before the call or already missing; no other file
\* and no other track is touched.
C16_DeleteRemovesFiles ==
    [][( /\ call'.op = "Track.delete"
         /\ Track_delete(call'.track_id, call'.fault)
         /\ call'.fault = "none"
         /\ call'.track_id \in Ids(tracks) )
       => LET track == CHOOSE r \in tracks : r.id = call'.track_id
          IN /\ result' = IntResult(1)
             /\ result' # Raised
             /\ tracks' = tracks \ {track}
             /\ audio_folder' = audio_folder \ {track.file_path}
             /\ covers_folder' = covers_folder \ {track.cover_path}
      ]_vars

\* C16 witness: the last call deleted a track whose audio file was already
\* missing on disk and whose cover file was there.
C16_Witness ==
    /\ call.op = "Track.delete"
    /\ call.fault = "none"
    /\ call.audio = "missing"
    /\ call.cover = "removed"
    /\ result = IntResult(1)
    /\ call.track_id \notin Ids(tracks)

\* C17: after Artist.delete(a) has deleted artist a, no album and no track
\* has artist_id = a, and the album ids and the track ids are as before.
C17_ArtistDeleteSetsNull ==
    [][( /\ call'.op = "Artist.delete"
         /\ Artist_delete(call'.artist_id)
         /\ result' = IntResult(1) )
       => /\ \A r \in albums' : r.artist_id # call'.artist_id
          /\ \A r \in tracks' : r.artist_id # call'.artist_id
          /\ Ids(albums') = Ids(albums)
          /\ Ids(tracks') = Ids(tracks)
      ]_vars

\* The arguments of an update that are not null.
NonNull(u) ==
    {f \in DOMAIN u : IF f \in {"title", "lyrics"} THEN u[f] # NoText
                      ELSE u[f] # NULL}

\* The rows after an update of row id that writes the given fields of u, and
\* nothing else.
Written(rows, id, u, fields) ==
    {IF r.id = id
     THEN [f \in DOMAIN r |-> IF f \in fields THEN u[f] ELSE r[f]]
     ELSE r : r \in rows}

\* The store but for the table an update is on.
OtherTables(db, table) == [t \in TableNames \ {table} |-> db[t]]

Supplied(u) ==
    {f \in NonNull(u) : f = "title" => u.title # ""}

\* Whether the UPDATE of a row that exists names an artist or an album that
\* does not, which a store that enforces foreign keys refuses.
Refused(id, u, table) ==
    /\ foreign_keys
    /\ id \in Ids(Database[table])
    /\ \/ "artist_id" \in Supplied(u) /\ u.artist_id \notin Ids(artists)
       \/ "album_id" \in Supplied(u) /\ u.album_id \notin Ids(albums)

C19_FormattersAgree ==
    call.op = "format_duration" =>
        /\ call.playlist = call.library
        /\ call.library = call.track

\* C19 as the code has it: the library formatter and the track formatter
\* return the same string for every d >= 0, and the playlist formatter
\* returns that string exactly when d < 3600; from one hour on it has an
\* hours field the other two do not have.
C19_FormattersAgreeBelowAnHour ==
    call.op = "format_duration" =>
        /\ call.library = call.track
        /\ (call.playlist = call.library) <=> (call.duration < 3600)

\* C19 witness: 3599 seconds, the last duration without an hours field, have
\* been formatted and the three strings are the same.
C19_Witness ==
    /\ call.op = "format_duration"
    /\ call.duration = 3599
    /\ call.playlist = "59:59"
    /\ call.library = "59:59"
    /\ call.track = "59:59"

\* The ten decimal digits.
Digit == <<"0", "1", "2", "3", "4", "5", "6", "7", "8", "9">>

\* The decimal numeral of n, and the numeral with a zero before a single
\* digit.
RECURSIVE Decimal(_)
Decimal(n) ==
    IF n < 10 THEN Digit[n + 1] ELSE Decimal(n \div 10) \o Digit[(n % 10) + 1]

TwoDigits(n) == IF n < 10 THEN "0" \o Decimal(n) ELSE Decimal(n)

\* C20: for d >= 0 the playlist formatter returns HH:MM:SS when d >= 3600
\* and MM:SS otherwise, HH = d div 3600, MM = (d mod 3600) div 60, SS = d mod
\* 60, each of two digits at least (3725 -> 01:02:05, 65 -> 01:05); the
\* library formatter returns MM:SS with MM = d div 60, SS = d mod 60
\* (125 -> 02:05).
C20_DurationFormat ==
    call.op = "format_duration" =>
        LET d == call.duration
            HH == d \div 3600
            MM == (d % 3600) \div 60
            SS == d % 60
        IN /\ d >= 3600 =>
                  call.playlist =
                      TwoDigits(HH) \o ":" \o TwoDigits(MM) \o ":" \o TwoDigits(SS)
           /\ d < 3600 => call.playlist = TwoDigits(MM) \o ":" \o TwoDigits(SS)
           /\ call.library = TwoDigits(d \div 60) \o ":" \o TwoDigits(d % 60)
           /\ d = 3725 => call.playlist = "01:02:05"
           /\ d = 65 => call.playlist = "01:05"
           /\ d = 125 => call.library = "02:05"

\* C20 witness: 3725 seconds have been formatted, with an hours field by the
\* playlist formatter and without one by the library formatter.
C20_Witness ==
    /\ call.op = "format_duration"
    /\ call.duration = 3725
    /\ call.playlist = "01:02:05"
    /\ call.library = "62:05"

\* The durations of the tracks the rows of playlist p name, those that are
\* not null.
MemberDurations(p) ==
    {<<r.track_id, t.duration>> : <<r, t>> \in
        {x \in RowsOf(playlist_tracks, p) \X tracks :
            x[1].track_id = x[2].id /\ x[2].duration # NULL}}

RECURSIVE SumOf(_)
SumOf(pairs) ==
    IF pairs = {} THEN 0
    ELSE LET x == CHOOSE x \in pairs : TRUE IN x[2] + SumOf(pairs \ {x})

\* C21: in every reachable state Playlist.get_info is None for a playlist
\* that does not exist; for one that does, track_count is the number of
\* playlist_tracks rows of the playlist and total_duration is the formatted
\* sum of the non-null durations of its members.
C21_PlaylistInfo ==
    \A p \in PlaylistIds :
        IF p \notin Ids(playlists)
        THEN Playlist_get_info(p) = None
        ELSE /\ Playlist_get_info(p).track_count =
                    Cardinality(RowsOf(playlist_tracks, p))
             /\ Playlist_get_info(p).total_duration =
                    Playlist_format_duration(SumOf(MemberDurations(p)))

\* C22: a write statement that does not fail makes execute return the id of
\* the row it created when it is an INSERT that created a row, and the number
\* of rows it affected otherwise (0 for an UPDATE or DELETE that matched no
\* row); a DELETE by id returns 0 or 1.
C22_WriteResult ==
    [][( /\ call'.op = "DatabaseManager.execute"
         /\ ~IsSelect(call'.query)
         /\ ~StatementError(artists, call'.query, call'.locked)
         /\ DatabaseManager_execute(call'.query, call'.locked) )
       => LET created == {r \in artists' : r.id \notin Ids(artists)}
              matched == {r \in artists : r.id = call'.query.id}
          IN /\ result'.kind = "int"
             /\ IF call'.query.sql = "INSERT INTO artists (name) VALUES (?)"
                THEN /\ Cardinality(created) = 1
                     /\ \A r \in created : result'.val = r.id
                ELSE /\ created = {}
                     /\ result'.val = Cardinality(matched)
             /\ call'.query.sql = "DELETE FROM artists WHERE id = ?"
                    => /\ result'.val \in {0, 1}
                       /\ result'.val = Cardinality(artists \ artists')
      ]_vars

\* C22 witness: the last statement, an UPDATE of an id no artist has in a
\* table that has rows, returned 0.
C22_Witness ==
    /\ call.op = "DatabaseManager.execute"
    /\ call.query.sql = "UPDATE artists SET name = ? WHERE id = ?"
    /\ ~call.locked
    /\ artists # {}
    /\ call.query.id \notin Ids(artists)
    /\ result = IntResult(0)

\* C23: MusicLibrary.get_all_tracks and get_all_playlists return the list of
\* every stored row (the empty list when there is none) and never fail, and
\* show_window, which lists the tracks at start-up, completes.
C23_ListAll ==
    /\ call.op = "MusicLibrary.get_all_tracks"
           => result = ListResult(Cardinality(tracks))
    /\ call.op = "MusicLibrary.get_all_playlists"
           => result = ListResult(Cardinality(playlists))
    /\ call.op = "MainController.show_window" => result # Raised

\* C27: Track.get_info of a track that exists does not fail, whether or not
\* its duration, artist, album or lyrics is null, and has the defaults for
\* the null ones; for an id no track has it returns None.
C27_TrackInfo ==
    [][( /\ call'.op = "Track.get_info"
         /\ Track_get_info(call'.track_id) )
       => IF call'.track_id \notin Ids(tracks) THEN result' = None
          ELSE /\ result' # Raised
               /\ result'.kind = "dict"
               /\ \A r \in tracks :
                      r.id = call'.track_id =>
                          /\ r.artist_id = NULL =>
                                 call'.info[2] = "Unknown Artist"
                          /\ r.album_id = NULL =>
                                 call'.info[3] = "Unknown Album"
                          /\ r.lyrics = NoText =>
                                 call'.info[5] = "No lyrics provided"
      ]_vars

\* C24: ensure_column_exists of a table of the schema does not fail, leaves
\* the table with the column and the rows of the store as they were, and
\* changes nothing when the table already has the column, so that a second
\* call with the same arguments changes nothing.
C24_EnsureColumnIdempotent ==
    [][( /\ call'.op = "DatabaseManager.ensure_column_exists"
         /\ call'.table \in DOMAIN table_columns
         /\ DatabaseManager_ensure_column_exists(call'.table, call'.column,
                                                 call'.type) )
       => /\ result' # Raised
          /\ call'.column \in table_columns'[call'.table]
          /\ call'.column \in table_columns[call'.table]
                 => table_columns' = table_columns
          /\ \A t \in DOMAIN table_columns :
                 table_columns'[t] \ {call'.column} =
                     table_columns[t] \ {call'.column}
          /\ Database' = Database
      ]_vars

\* C25: add_track is all or nothing: when its INSERT fails (the track is
\* already a member of the playlist), the rows of playlist_tracks, positions
\* included, are as they were before the call.
C25_AddTrackAllOrNothing ==
    [][( /\ call'.op = "Playlist.add_track"
         /\ InsertRejected(playlist_tracks, call'.playlist_id, call'.track_id)
         /\ Playlist_add_track(call'.playlist_id, call'.track_id) )
       => /\ result' = EmptyList
          /\ playlist_tracks' = playlist_tracks
      ]_vars

\* C26: remove_track returns the number of association rows it deleted: 0
\* when the track is not a member of the playlist, 1 when it was removed,
\* at whatever position it was.
C26_RemoveTrackCount ==
    [][( /\ call'.op = "Playlist.remove_track"
         /\ Playlist_remove_track(call'.playlist_id, call'.track_id) )
       => /\ result'.kind = "int"
          /\ result'.val =
                 Cardinality(playlist_tracks) - Cardinality(playlist_tracks')
          /\ result'.val =
                 IF call'.track_id \in Members(playlist_tracks,
                                               call'.playlist_id)
                 THEN 1 ELSE 0
      ]_vars

\* Every row of playlist_tracks names a playlist and a track that exist.
ReferentialIntegrity(pt, ps, ts) ==
    \A r \in pt : r.playlist_id \in Ids(ps) /\ r.track_id \in Ids(ts)

\* C28: playlist membership keeps referential integrity: after every step
\* each playlist_tracks row names an existing playlist and an existing
\* track, and add_track with the id of a playlist or track that does not
\* exist creates no row and changes no position.
C28_MembershipIntegrity ==
    [][ /\ ReferentialIntegrity(playlist_tracks', playlists', tracks')
        /\ ( /\ call'.op = "Playlist.add_track"
             /\ Playlist_add_track(call'.playlist_id, call'.track_id)
             /\ \/ call'.playlist_id \notin Ids(playlists)
                \/ call'.track_id \notin Ids(tracks) )
           => playlist_tracks' = playlist_tracks
      ]_vars

\* C29: change_track_position of a track that is not a member of the
\* playlist returns 0 and changes no row of any playlist, whatever the new
\* position.
C29_MoveNonMember ==
    [][( /\ call'.op = "Playlist.change_track_position"
         /\ call'.track_id \notin Members(playlist_tracks, call'.playlist_id)
         /\ Playlist_change_track_position(call'.playlist_id, call'.track_id,
                                           call'.new_position) )
       => /\ result' = IntResult(0)
          /\ playlist_tracks' = playlist_tracks
      ]_vars

\* C29 witness: the last call moved, in a playlist that has members, a track
\* that is a member of the other playlist only, at another position there,
\* and returned 0.
C29_Witness ==
    /\ call.op = "Playlist.change_track_position"
    /\ call.position = NULL
    /\ result = IntResult(0)
    /\ RowsOf(playlist_tracks, call.playlist_id) # {}
    /\ \E r \in playlist_tracks :
           /\ r.playlist_id # call.playlist_id
           /\ r.track_id = call.track_id
           /\ r.position # call.new_position

\* C30: add_track, remove_track and change_track_position on a playlist
\* change no row of another playlist: the members of every other playlist
\* and their positions are as they were, also when the track is in both.
C30_PlaylistsAreLocal ==
    [][( \/ /\ call'.op = "Playlist.add_track"
            /\ Playlist_add_track(call'.playlist_id, call'.track_id)
         \/ /\ call'.op = "Playlist.remove_track"
            /\ Playlist_remove_track(call'.playlist_id, call'.track_id)
         \/ /\ call'.op = "Playlist.change_track_position"
            /\ Playlist_change_track_position(call'.playlist_id,
                                              call'.track_id,
                                              call'.new_position) )
       => \A q \in LocalPlaylistIds \ {call'.playlist_id} :
              RowsOf(playlist_tracks', q) = RowsOf(playlist_tracks, q)
      ]_vars

\* C30 witness: the last call put into a playlist that had a member a track
\* that the other playlist, of two members, has too.
C30_Witness ==
    /\ call.op = "Playlist.add_track"
    /\ result = NewRowId
    /\ Cardinality(RowsOf(playlist_tracks, call.playlist_id)) >= 2
    /\ \E q \in LocalPlaylistIds \ {call.playlist_id} :
           /\ call.track_id \in Members(playlist_tracks, q)
           /\ Cardinality(RowsOf(playlist_tracks, q)) >= 2

====
